---- MODULE Spec2Model ----
(***************************************************************************)
(* Model of src/demo.ts: the asset-ordering demonstration script.          *)
(*                                                                         *)
(* JavaScript objects are modelled as references into a heap, because the  *)
(* script compares locations with == (reference identity) and passes the   *)
(* constant objects by reference into every call it builds.                *)
(*                                                                         *)
(* Two specifications share the variables:                                 *)
(*   Spec      - the script, from the entry point to process exit;         *)
(*   SpecBuild - createTransferExtrinsic applied to arbitrary arguments.   *)
(***************************************************************************)
EXTENDS Integers, Sequences, FiniteSets, TLC

VARIABLES
    heap,       \* reference -> value of the location objects
    pc,         \* position of the script
    api,        \* "none" | "connected" | "disconnected"
    opened,     \* number of connections established (ApiPromise.create resolved)
    disconnects,\* number of api.disconnect() calls made
    run,        \* which testAssetOrdering call is executing (1 = WUD, 2 = KSM)
    ord,        \* which half of testAssetOrdering (1 = token-first, 2 = DOT-first)
    args,       \* <<>> or <<arguments createTransferExtrinsic is applied to>>
    built,      \* order flag -> <<>> or <<the call built with that flag>>
    issued,     \* the dry-run calls started so far, in order
    inFlight,   \* indices into issued of the calls not yet settled
    responses,  \* index into issued -> the settled promise of that call
    log,        \* console output, in order
    exitCode    \* <<>> while the process runs, then <<status>>

vars == <<heap, pc, api, opened, disconnects, run, ord, args, built, issued,
          inFlight, responses, log, exitCode>>

-----------------------------------------------------------------------------
(* Constants of the script *)

WUD_LOCATION_REF == "WUD_ASSET.location"
KSM_LOCATION_REF == "KSM_ASSET.location"
NATIVE_TOKEN_LOCATION == "NATIVE_TOKEN_LOCATION"

WUD_ASSET ==
    [token |-> "0x5fdcd48f09fb67de3d202cd854b372aec1100ed5",
     name |-> "GAVUN WUD",
     symbol |-> "WUD",
     decimals |-> 10,
     location |-> WUD_LOCATION_REF,
     assetId |-> "31337"]

KSM_ASSET ==
    [token |-> "0x12bbfdc9e813614eef8dc8a2560b0efbeaf7c2ab",
     name |-> "Kusama",
     symbol |-> "KSM",
     decimals |-> 12,
     location |-> KSM_LOCATION_REF]

KUSAMA_ASSET_HUB_PARA_ID == 1000

\* The values of the three constant location objects.
WudLocationValue ==
    [parents |-> 0,
     interior |-> [x2 |-> <<[palletInstance |-> 50], [generalIndex |-> 31337]>>]]

KsmLocationValue ==
    [parents |-> 2,
     interior |-> [x1 |-> <<[globalConsensus |-> [kusama |-> "null"]]>>]]

\* interior: "Here", written as a record so that it compares with the others
NativeLocationValue ==
    [parents |-> 1, interior |-> [Here |-> <<>>]]

\* Objects a caller of createTransferExtrinsic may pass besides the
\* constants: a distinct object with the same contents as KSM_ASSET.location,
\* and a location of some other token.
KSM_COPY_REF == "copy of KSM_ASSET.location"
OTHER_REF == "other location"

OtherLocationValue ==
    [parents |-> 0,
     interior |-> [x2 |-> <<[palletInstance |-> 50], [generalIndex |-> 1984]>>]]

Refs == {WUD_LOCATION_REF, KSM_LOCATION_REF, NATIVE_TOKEN_LOCATION,
         KSM_COPY_REF, OTHER_REF}

InitHeap ==
    [r \in Refs |->
        CASE r = WUD_LOCATION_REF -> WudLocationValue
          [] r = KSM_LOCATION_REF -> KsmLocationValue
          [] r = NATIVE_TOKEN_LOCATION -> NativeLocationValue
          [] r = KSM_COPY_REF -> KsmLocationValue
          [] OTHER -> OtherLocationValue]

OrderFlags == {"token-first", "dot-first", "other"}

-----------------------------------------------------------------------------
(* Pure functions *)

createDummyXCM(beneficiary) ==
    [v4 |-> <<
        [DepositAsset |->
            [assets |-> [Wild |-> [AllCounted |-> "2"]],
             beneficiary |->
                [parents |-> 0,
                 interior |-> [x1 |-> <<
                    [AccountId32 |-> [network |-> "null", id |-> beneficiary]]
                 >>]]]]
    >>]

\* Variant of reserveType: the locations compared by their contents.
reserveTypeByContents(h, tokenLocation) ==
    IF h[tokenLocation] = h[KSM_ASSET.location]
    THEN "DestinationReserve"
    ELSE "LocalReserve"

\* let reserveType = "LocalReserve"
\* if (tokenLocation == KSM_ASSET.location) reserveType = "DestinationReserve"
\* == on two objects is reference identity.
reserveType(h, tokenLocation) ==
    IF tokenLocation = KSM_ASSET.location
    THEN "DestinationReserve"
    ELSE "LocalReserve"

\* Variant of assetsList: in the else branch the amount goes with DOT and the
\* fee with the token.
assetsListSwappedAmounts(tokenLocation, amount, destFee, assetOrder) ==
    IF assetOrder = "token-first"
    THEN [v4 |-> <<
            [id |-> tokenLocation, fun |-> [Fungible |-> amount]],
            [id |-> NATIVE_TOKEN_LOCATION, fun |-> [Fungible |-> destFee]]
         >>]
    ELSE [v4 |-> <<
            [id |-> NATIVE_TOKEN_LOCATION, fun |-> [Fungible |-> amount]],
            [id |-> tokenLocation, fun |-> [Fungible |-> destFee]]
         >>]

\* The assets literal, by the order flag: any flag but "token-first" takes
\* the else branch.
assetsList(tokenLocation, amount, destFee, assetOrder) ==
    IF assetOrder = "token-first"
    THEN [v4 |-> <<
            [id |-> tokenLocation, fun |-> [Fungible |-> amount]],
            [id |-> NATIVE_TOKEN_LOCATION, fun |-> [Fungible |-> destFee]]
         >>]
    ELSE [v4 |-> <<
            [id |-> NATIVE_TOKEN_LOCATION, fun |-> [Fungible |-> destFee]],
            [id |-> tokenLocation, fun |-> [Fungible |-> amount]]
         >>]

\* Variant of createTransferExtrinsic: the fee asset is the first entry of the
\* assets list.
createTransferExtrinsicFeeByOrder(h, tokenLocation, amount, destFee, assetOrder, beneficiary) ==
    [destination |->
        [v4 |-> [parents |-> 2,
                 interior |-> [x2 |-> <<[GlobalConsensus |-> [Kusama |-> "null"]],
                                        [parachain |-> KUSAMA_ASSET_HUB_PARA_ID]>>]]],
     assets |-> assetsList(tokenLocation, amount, destFee, assetOrder),
     assetsTransferType |-> reserveType(h, tokenLocation),
     feeAsset |-> [v4 |-> assetsList(tokenLocation, amount, destFee, assetOrder).v4[1].id],
     feesTransferType |-> "LocalReserve",
     customXcm |-> createDummyXCM(beneficiary),
     weightLimit |-> "Unlimited"]

\* The arguments handed to api.tx.polkadotXcm.transferAssetsUsingTypeAndThen.
createTransferExtrinsic(h, tokenLocation, amount, destFee, assetOrder, beneficiary) ==
    [destination |->
        [v4 |-> [parents |-> 2,
                 interior |-> [x2 |-> <<[GlobalConsensus |-> [Kusama |-> "null"]],
                                        [parachain |-> KUSAMA_ASSET_HUB_PARA_ID]>>]]],
     assets |-> assetsList(tokenLocation, amount, destFee, assetOrder),
     assetsTransferType |-> reserveType(h, tokenLocation),
     feeAsset |-> [v4 |-> NATIVE_TOKEN_LOCATION],
     feesTransferType |-> "LocalReserve",
     customXcm |-> createDummyXCM(beneficiary),
     weightLimit |-> "Unlimited"]

\* Variant of createTransferExtrinsicHeap: the amount is stored into the
\* location object passed in, instead of into a fresh entry.
createTransferExtrinsicHeapTagging(h, tokenLocation, amount, destFee, assetOrder, beneficiary) ==
    [h EXCEPT ![tokenLocation] =
        [parents |-> h[tokenLocation].parents,
         interior |-> h[tokenLocation].interior,
         fun |-> [Fungible |-> amount]]]

\* The heap after createTransferExtrinsic: the function reads its arguments
\* and the constants and allocates fresh literals; it assigns to no field of
\* an existing object.
createTransferExtrinsicHeap(h, tokenLocation, amount, destFee, assetOrder, beneficiary) ==
    h

-----------------------------------------------------------------------------
(* SpecBuild: createTransferExtrinsic on arbitrary arguments.              *)
(* run counts the argument sets used so far.                               *)

Amounts == {"50000000000", "29876830", "0"}
Accounts == {"0x460411e07f93dc4bc2b3a6cb67dad89ca26e8a54054d13916f74c982595c2e0e",
             "0x00"}

\* A caller applies createTransferExtrinsic to this many argument sets in turn.
MaxArgSets == 2

ArgSets == [tokenLocation : Refs, amount : Amounts,
            destFee : Amounts, beneficiary : Accounts]

NothingBuilt == [o \in OrderFlags |-> <<>>]

InitBuild ==
    /\ heap = InitHeap
    /\ pc = "lib"
    /\ api = "connected"
    /\ opened = 1
    /\ disconnects = 0
    /\ run = 1
    /\ ord = 0
    /\ args \in {<<a>> : a \in ArgSets}
    /\ built = NothingBuilt
    /\ issued = <<>>
    /\ inFlight = {}
    /\ responses = <<>>
    /\ log = <<>>
    /\ exitCode = <<>>

BuildWith(o) ==
    /\ pc = "lib"
    /\ built[o] = <<>>
    /\ LET a == Head(args) IN
        /\ built' = [built EXCEPT ![o] =
                <<createTransferExtrinsic(heap, a.tokenLocation, a.amount,
                                          a.destFee, o, a.beneficiary)>>]
        /\ heap' = createTransferExtrinsicHeap(heap, a.tokenLocation, a.amount,
                                               a.destFee, o, a.beneficiary)
    /\ UNCHANGED <<pc, api, opened, disconnects, run, ord, args, issued,
                   inFlight, responses, log, exitCode>>

\* The caller moves on to another argument set.
NextArgs ==
    /\ pc = "lib"
    /\ run < MaxArgSets
    /\ run' = run + 1
    /\ args' \in {<<a>> : a \in ArgSets}
    /\ built' = NothingBuilt
    /\ UNCHANGED <<heap, pc, api, opened, disconnects, ord, issued, inFlight,
                   responses, log, exitCode>>

NextBuild ==
    \/ \E o \in OrderFlags : BuildWith(o)
    \/ NextArgs

SpecBuild == InitBuild /\ [][NextBuild]_vars

-----------------------------------------------------------------------------
(* Spec: the script *)

\* demonstrateAssetOrderingBug calls testAssetOrdering for these, in order.
Assets == <<WUD_ASSET, KSM_ASSET>>
Fees == <<"29876830", "18718740000">>
testAccount == "0x460411e07f93dc4bc2b3a6cb67dad89ca26e8a54054d13916f74c982595c2e0e"
amount == "50000000000"

\* The arguments createTransferExtrinsic gets inside the r-th testAssetOrdering.
TestArgs(r) ==
    [tokenLocation |-> Assets[r].location,
     amount |-> amount,
     destFee |-> Fees[r],
     beneficiary |-> testAccount]

OrderOf(o) == IF o = 1 THEN "token-first" ELSE "dot-first"
OrderLabel(o) == IF o = 1 THEN "token-first" ELSE "DOT-first"

\* What the node can answer to dryRunCall, and what a failed call throws.
ExecErrors == {"Module: polkadotXcm.LocalExecutionIncomplete", "wasm unreachable"}
CallErrors == {"VersionedConversionFailed"}
ThrowMessages == {"dryRunApi call failed"}

OkOk == [isOk |-> TRUE,
         asOk |-> <<[executionResult |-> [isOk |-> TRUE, asErr |-> <<>>]]>>,
         asErr |-> <<>>]
OkErr(e) == [isOk |-> TRUE,
             asOk |-> <<[executionResult |-> [isOk |-> FALSE, asErr |-> <<e>>]]>>,
             asErr |-> <<>>]
Err(e) == [isOk |-> FALSE, asOk |-> <<>>, asErr |-> <<e>>]

DryRunResults == {OkOk} \cup {OkErr(e) : e \in ExecErrors} \cup {Err(e) : e \in CallErrors}

Settlements ==
    {[state |-> "fulfilled", value |-> <<r>>, reason |-> <<>>] : r \in DryRunResults}
    \cup {[state |-> "rejected", value |-> <<>>, reason |-> <<m>>] : m \in ThrowMessages}

Pending == [state |-> "pending", value |-> <<>>, reason |-> <<>>]

\* Variant of success: the execution result is not looked at.
successCallOnly(r) == r.isOk

\* const success = dryRunResult.isOk && dryRunResult.asOk.executionResult.isOk
success(r) == r.isOk /\ Head(r.asOk).executionResult.isOk

\* The lines the try block prints for a result the call returned.
reportResult(symbol, label, r) ==
    LET ok == success(r)
        status == [kind |-> "status", symbol |-> symbol, order |-> label,
                   outcome |-> IF ok THEN "SUCCESS" ELSE "FAILED"]
    IN  IF ok
        THEN <<status>>
        ELSE <<status,
               [kind |-> "details", symbol |-> symbol, order |-> label,
                error |-> IF r.isOk
                          THEN Head(Head(r.asOk).executionResult.asErr)
                          ELSE Head(r.asErr)]>>

\* The line the catch block prints for a call that threw.
reportException(symbol, label, message) ==
    <<[kind |-> "status", symbol |-> symbol, order |-> label,
       outcome |-> "EXCEPTION", message |-> message]>>

Init ==
    /\ heap = InitHeap
    /\ pc = "start"
    /\ api = "none"
    /\ opened = 0
    /\ disconnects = 0
    /\ run = 0
    /\ ord = 0
    /\ args = <<>>
    /\ built = NothingBuilt
    /\ issued = <<>>
    /\ inFlight = {}
    /\ responses = <<>>
    /\ log = <<>>
    /\ exitCode = <<>>

\* The banner and the endpoint line, printed before the try block.
Start ==
    /\ pc = "start"
    /\ log' = log \o <<[kind |-> "banner"], [kind |-> "connecting"]>>
    /\ pc' = "connect"
    /\ UNCHANGED <<heap, api, opened, disconnects, run, ord, args, built,
                   issued, inFlight, responses, exitCode>>

\* ApiPromise.create resolves; testAssetOrdering(api, WUD_ASSET, ...) is entered.
Connect ==
    /\ pc = "connect"
    /\ api' = "connected"
    /\ opened' = opened + 1
    /\ run' = 1
    /\ ord' = 1
    /\ args' = <<TestArgs(1)>>
    /\ built' = NothingBuilt
    /\ pc' = "build"
    /\ UNCHANGED <<heap, disconnects, issued, inFlight, responses, log, exitCode>>

\* Variant of ConnectFail: the catch logs and the script goes on.
ConnectFailContinues ==
    /\ pc = "connect"
    /\ log' = Append(log, [kind |-> "error", message |-> "connect"])
    /\ run' = 1
    /\ ord' = 1
    /\ args' = <<TestArgs(1)>>
    /\ built' = NothingBuilt
    /\ pc' = "build"
    /\ UNCHANGED <<heap, api, opened, disconnects, issued, inFlight, responses,
                   exitCode>>

\* new WsProvider or ApiPromise.create throws: the outer catch logs and exits.
ConnectFail ==
    /\ pc = "connect"
    /\ log' = Append(log, [kind |-> "error", message |-> "connect"])
    /\ exitCode' = <<1>>
    /\ pc' = "done"
    /\ UNCHANGED <<heap, api, opened, disconnects, run, ord, args, built,
                   issued, inFlight, responses>>

\* "Testing ..." is printed, then createTransferExtrinsic returns the call.
BuildOk ==
    /\ pc = "build"
    /\ LET a == Head(args) IN
        /\ built' = [built EXCEPT ![OrderOf(ord)] =
                <<createTransferExtrinsic(heap, a.tokenLocation, a.amount,
                                          a.destFee, OrderOf(ord), a.beneficiary)>>]
        /\ heap' = createTransferExtrinsicHeap(heap, a.tokenLocation, a.amount,
                                               a.destFee, OrderOf(ord), a.beneficiary)
    /\ log' = Append(log, [kind |-> "testing", symbol |-> Assets[run].symbol,
                           order |-> OrderLabel(ord)])
    /\ pc' = "call"
    /\ UNCHANGED <<api, opened, disconnects, run, ord, args, issued, inFlight,
                   responses, exitCode>>

\* api.tx.polkadotXcm.transferAssetsUsingTypeAndThen throws (the pallet is
\* missing on the connected chain, or an argument does not encode). The call
\* sits outside testAssetOrdering's try blocks, so the exception leaves
\* testAssetOrdering and reaches the outer catch: log, process.exit(1).
BuildThrow ==
    /\ pc = "build"
    /\ log' = log \o <<[kind |-> "testing", symbol |-> Assets[run].symbol,
                        order |-> OrderLabel(ord)],
                       [kind |-> "error", message |-> "build"]>>
    /\ exitCode' = <<1>>
    /\ pc' = "done"
    /\ UNCHANGED <<heap, api, opened, disconnects, run, ord, args, built,
                   issued, inFlight, responses>>

\* api.call.dryRunApi.dryRunCall(origin, tx, 4) is started.
DryRunCall ==
    /\ pc = "call"
    /\ issued' = Append(issued, [symbol |-> Assets[run].symbol,
                                 order |-> OrderOf(ord),
                                 origin |-> [system |-> [signed |-> testAccount]],
                                 tx |-> Head(built[OrderOf(ord)]),
                                 xcmVersion |-> 4])
    /\ inFlight' = inFlight \cup {Len(issued) + 1}
    /\ responses' = Append(responses, Pending)
    /\ pc' = "await"
    /\ UNCHANGED <<heap, api, opened, disconnects, run, ord, args, built, log,
                   exitCode>>

\* The node answers, or the call fails: the promise of call k settles.
DryRunSettle ==
    /\ \E k \in inFlight, s \in Settlements :
        /\ inFlight' = inFlight \ {k}
        /\ responses' = [responses EXCEPT ![k] = s]
    /\ UNCHANGED <<heap, pc, api, opened, disconnects, run, ord, args, built,
                   issued, log, exitCode>>

\* Where the script goes after the dry run of (run, ord).
Advance ==
    IF ord = 1
    THEN /\ ord' = 2
         /\ pc' = "build"
         /\ UNCHANGED <<run, args, built>>
    ELSE IF run < Len(Assets)
    THEN /\ run' = run + 1
         /\ ord' = 1
         /\ args' = <<TestArgs(run + 1)>>
         /\ built' = NothingBuilt
         /\ pc' = "build"
    ELSE /\ pc' = "disconnect"
         /\ UNCHANGED <<run, ord, args, built>>

\* Variant of DryRunReport: the call is not awaited and its result dropped.
DryRunReportNoAwait ==
    /\ pc = "await"
    /\ Advance
    /\ UNCHANGED <<heap, api, opened, disconnects, issued, inFlight, responses,
                   log, exitCode>>

\* await returns or throws once the promise has settled; the try block
\* prints the result, or the catch block prints the exception.
DryRunReport ==
    /\ pc = "await"
    /\ LET p == responses[Len(issued)] IN
        /\ p.state # "pending"
        /\ log' = log \o
            (IF p.state = "fulfilled"
             THEN reportResult(Assets[run].symbol, OrderLabel(ord), Head(p.value))
             ELSE reportException(Assets[run].symbol, OrderLabel(ord), Head(p.reason)))
    /\ Advance
    /\ UNCHANGED <<heap, api, opened, disconnects, issued, inFlight, responses,
                   exitCode>>

\* await api.disconnect() resolves; the script ends and the process exits 0.
Disconnect ==
    /\ pc = "disconnect"
    /\ disconnects' = disconnects + 1
    /\ api' = "disconnected"
    /\ exitCode' = <<0>>
    /\ pc' = "done"
    /\ UNCHANGED <<heap, opened, run, ord, args, built, issued, inFlight,
                   responses, log>>

\* await api.disconnect() rejects: the outer catch logs and exits 1.
DisconnectFail ==
    /\ pc = "disconnect"
    /\ disconnects' = disconnects + 1
    /\ log' = Append(log, [kind |-> "error", message |-> "disconnect"])
    /\ exitCode' = <<1>>
    /\ pc' = "done"
    /\ UNCHANGED <<heap, api, opened, run, ord, args, built, issued, inFlight,
                   responses>>

Next ==
    \/ Start
    \/ Connect
    \/ ConnectFail
    \/ BuildOk
    \/ BuildThrow
    \/ DryRunCall
    \/ DryRunSettle
    \/ DryRunReport
    \/ Disconnect
    \/ DisconnectFail

Spec == Init /\ [][Next]_vars

-----------------------------------------------------------------------------
(* Properties *)

Reverse(s) == [i \in 1..Len(s) |-> s[Len(s) + 1 - i]]

\* C1: for the same token location, amount, destination fee and beneficiary,
\* the dot-first call's assets list is the token-first call's list reversed,
\* and every other argument of the two calls is identical.
C1_OrderingsDifferOnlyInAssetOrder ==
    (built["token-first"] # <<>> /\ built["dot-first"] # <<>>) =>
        LET t == Head(built["token-first"])
            d == Head(built["dot-first"])
        IN  /\ d.assets.v4 = Reverse(t.assets.v4)
            /\ DOMAIN d.assets = DOMAIN t.assets
            /\ d.destination = t.destination
            /\ d.assetsTransferType = t.assetsTransferType
            /\ d.feeAsset = t.feeAsset
            /\ d.feesTransferType = t.feesTransferType
            /\ d.customXcm = t.customXcm
            /\ d.weightLimit = t.weightLimit

\* Both orderings built for a token other than DOT: the two lists differ.
C1_Witness ==
    /\ pc = "lib"
    /\ built["token-first"] # <<>>
    /\ built["dot-first"] # <<>>
    /\ Head(args).tokenLocation # NATIVE_TOKEN_LOCATION
    /\ Head(built["token-first"]).assets # Head(built["dot-first"]).assets

\* C2: the assets list has exactly two entries; with "token-first" it is
\* [token with the amount, DOT with the fee], with any other flag it is
\* [DOT with the fee, token with the amount].
C2_AssetsListShape ==
    \A o \in OrderFlags :
        built[o] # <<>> =>
            LET a == Head(args)
                l == Head(built[o]).assets.v4
                tokenEntry == [id |-> a.tokenLocation, fun |-> [Fungible |-> a.amount]]
                dotEntry == [id |-> NATIVE_TOKEN_LOCATION, fun |-> [Fungible |-> a.destFee]]
            IN  /\ Len(l) = 2
                /\ o = "token-first" => l = <<tokenEntry, dotEntry>>
                /\ o # "token-first" => l = <<dotEntry, tokenEntry>>

\* A flag that is neither of the two named ones, with amount and fee distinct.
C2_Witness ==
    /\ pc = "lib"
    /\ built["other"] # <<>>
    /\ built["token-first"] # <<>>
    /\ Head(args).amount # Head(args).destFee
    /\ Head(args).tokenLocation = WUD_ASSET.location

\* C10: the asset transfer type is "DestinationReserve" exactly when the
\* token location passed in is the KSM_ASSET.location object, "LocalReserve"
\* otherwise, whatever the order flag; the fee transfer type is "LocalReserve".
C10_ReserveType ==
    \A o \in OrderFlags :
        built[o] # <<>> =>
            LET c == Head(built[o]) IN
                /\ c.assetsTransferType \in {"DestinationReserve", "LocalReserve"}
                /\ c.assetsTransferType = "DestinationReserve"
                      <=> Head(args).tokenLocation = KSM_LOCATION_REF
                /\ c.feesTransferType = "LocalReserve"

\* KSM built in both orderings, both with DestinationReserve.
C10_Witness ==
    /\ pc = "lib"
    /\ Head(args).tokenLocation = KSM_LOCATION_REF
    /\ built["token-first"] # <<>>
    /\ built["dot-first"] # <<>>
    /\ Head(built["token-first"]).assetsTransferType = "DestinationReserve"
    /\ Head(built["dot-first"]).assetsTransferType = "DestinationReserve"

ExpectedOrder ==
    <<[symbol |-> "WUD", order |-> "token-first"],
      [symbol |-> "WUD", order |-> "dot-first"],
      [symbol |-> "KSM", order |-> "token-first"],
      [symbol |-> "KSM", order |-> "dot-first"]>>

\* C3: at most one dry-run call is in flight, every call but the last started
\* has settled, and the calls are started in the order WUD token-first,
\* WUD DOT-first, KSM token-first, KSM DOT-first.
C3_Sequential ==
    /\ Cardinality(inFlight) <= 1
    /\ Len(issued) <= Len(ExpectedOrder)
    /\ \A i \in 1..Len(issued) :
        /\ issued[i].symbol = ExpectedOrder[i].symbol
        /\ issued[i].order = ExpectedOrder[i].order
        /\ i < Len(issued) => (i \notin inFlight /\ responses[i].state # "pending")

\* The fourth call is in flight, the three before it settled.
C3_Witness ==
    /\ Len(issued) = 4
    /\ inFlight = {4}
    /\ responses[3].state = "rejected"

IssuedPairs == {<<issued[i].symbol, issued[i].order>> : i \in 1..Len(issued)}

\* C4: a run that established the connection ends having made exactly four
\* dry-run calls, one per (asset, ordering) pair and none repeated, and a
\* dry-run failure never ends the process with status 1.
C4_FourDryRuns ==
    (exitCode # <<>> /\ opened > 0) =>
        /\ Len(issued) = 4
        /\ IssuedPairs = {"WUD", "KSM"} \X {"token-first", "dot-first"}
        /\ exitCode = <<1>> =>
                log[Len(log)] \in {[kind |-> "error", message |-> m] :
                                        m \in {"build", "disconnect"}}

\* C5: at most one connection is opened, and a run that opened it has called
\* api.disconnect by the time the process ends.
C5_ConnectionClosed ==
    /\ opened <= 1
    /\ (exitCode # <<>> /\ opened = 1) => disconnects = 1

\* C6: when establishing the connection fails, no dry-run call is made, the
\* error is logged and the process exits with status 1.
C6_ConnectFailure ==
    LET failed == \E i \in 1..Len(log) : log[i] = [kind |-> "error", message |-> "connect"]
    IN  /\ failed => (issued = <<>> /\ exitCode = <<1>> /\ pc = "done" /\ opened = 0)
        /\ (pc = "done" /\ opened = 0) => failed
        /\ opened = 0 => issued = <<>>

\* The run that ended on the connection failure.
C6_Witness ==
    /\ pc = "done"
    /\ opened = 0
    /\ exitCode = <<1>>
    /\ log[Len(log)] = [kind |-> "error", message |-> "connect"]

\* C7: the three constant locations keep their initial values through every
\* createTransferExtrinsic and testAssetOrdering call, and a testAssetOrdering
\* run starts with none of the previous run's calls.
C7_ConstantsUnchanged ==
    /\ heap[WUD_ASSET.location] = WudLocationValue
    /\ heap[KSM_ASSET.location] = KsmLocationValue
    /\ heap[NATIVE_TOKEN_LOCATION] = NativeLocationValue
    /\ heap = InitHeap
    /\ (pc = "build" /\ ord = 1) => (built = NothingBuilt /\ args = <<TestArgs(run)>>)

\* Both testAssetOrdering runs are over: four extrinsics built, four dry runs.
C7_Witness ==
    /\ pc = "done"
    /\ run = 2
    /\ Len(issued) = 4
    /\ built["dot-first"] # <<>>

IsStatus(l) == l.kind = "status"
StatusLines == SelectSeq(log, IsStatus)
StatusCountUpTo(i) == Cardinality({j \in 1..i : log[j].kind = "status"})

\* The outcome C9 prescribes for a settled call.
ExpectedOutcome(p) ==
    CASE p.state = "rejected" -> "EXCEPTION"
      [] p.state = "fulfilled" /\ ~Head(p.value).isOk -> "FAILED"
      [] p.state = "fulfilled" /\ Head(p.value).isOk
            /\ ~Head(Head(p.value).asOk).executionResult.isOk -> "FAILED"
      [] OTHER -> "SUCCESS"

ExpectedDetails(p) ==
    IF Head(p.value).isOk
    THEN Head(Head(Head(p.value).asOk).executionResult.asErr)
    ELSE Head(Head(p.value).asErr)

\* C9: each dry run that has been handled has exactly one status line:
\* SUCCESS iff the call result and its execution result are both Ok, FAILED
\* when the call returned otherwise, followed by the error of the execution
\* result (call result Ok) or of the call result (not Ok), EXCEPTION iff the
\* call threw; SUCCESS and EXCEPTION are followed by no details line.
C9_OneOutcomePerDryRun ==
    /\ Len(StatusLines) = Len(issued) - (IF pc = "await" THEN 1 ELSE 0)
    /\ \A i \in 1..Len(log) :
        log[i].kind = "status" =>
            LET k == StatusCountUpTo(i)
                p == responses[k]
                hasDetails == i < Len(log) /\ log[i + 1].kind = "details"
            IN  /\ log[i].symbol = issued[k].symbol
                /\ log[i].outcome = ExpectedOutcome(p)
                /\ hasDetails <=> log[i].outcome = "FAILED"
                /\ hasDetails => log[i + 1].error = ExpectedDetails(p)
    /\ \A i \in 1..Len(log) :
        log[i].kind = "details" => (i > 1 /\ log[i - 1].kind = "status")

\* A finished run that reported every kind of outcome.
C9_Witness ==
    /\ pc = "done"
    /\ Len(StatusLines) = 4
    /\ StatusLines[1].outcome = "SUCCESS"
    /\ StatusLines[2].outcome = "FAILED"
    /\ responses[2].value = <<OkErr("wasm unreachable")>>
    /\ StatusLines[3].outcome = "FAILED"
    /\ responses[3].value = <<Err("VersionedConversionFailed")>>
    /\ StatusLines[4].outcome = "EXCEPTION"

====
